---- MODULE Spec2Model ----
(***************************************************************************)
(* Task-Manager backend: task ownership, lane positions, board and list    *)
(* views, over the two stores the handlers use (the MongoDB collection     *)
(* when mongoose is connected, the in-process memoryStore otherwise);      *)
(* refresh-token rotation in authController; the frontend ApiClient's      *)
(* 401 refresh-and-retry interceptor; the React Query board cache with     *)
(* the optimistic delete and priority mutations of useTasks.ts.            *)
(*                                                                         *)
(* Optional request fields are sequences of length <= 1: << >> is          *)
(* "undefined", <<v>> is the supplied value.                               *)
(* Not modelled: description, tags, updatedAt, avatarUrl, name, password.  *)
(***************************************************************************)
EXTENDS Integers, Sequences, FiniteSets, TLC

VARIABLES mongoConnected, users, userIdCounter, tasks, taskIdCounter, now, resp, inflight,
          issuedTokens, refreshTokens, spentTokens, apiClient, queryCache

vars == <<mongoConnected, users, userIdCounter, tasks, taskIdCounter, now, resp, inflight,
          issuedTokens, refreshTokens, spentTokens, apiClient, queryCache>>

\* the refresh tokens: those signed so far (what verifyToken accepts), those
\* stored in User documents, and those already presented to a successful
\* refresh or to a logout
authVars == <<issuedTokens, refreshTokens, spentTokens>>

\* the browser side: the ApiClient singleton and the React Query cache
frontVars == <<apiClient, queryCache>>
\* the server side
serverVars == <<mongoConnected, users, userIdCounter, tasks, taskIdCounter, now, resp, inflight,
                issuedTokens, refreshTokens, spentTokens>>

(* ---------------- bounds ---------------- *)
MaxUsers == 2
MaxTasks == 2
MaxPos == 1
MaxInflight == 2
MaxTokens == 3
MaxRequests == 2
MaxRefreshCalls == 3
MaxMutations == 2

(* ---------------- program constants ---------------- *)
DefaultLimit == 15
DefaultPage == 1
TitleMaxLen == 200

Priorities == {"high", "medium", "low", "backlog"}
PriorityOrder == <<"high", "medium", "low", "backlog">>
Statuses == {"pending", "in-progress", "completed"}

(* ---------------- request inputs (bounded) ---------------- *)
Emails == {"a@x", "b@x"}
ReqPriorities == {<< >>, <<"high">>}
ReqStatuses == {<< >>, <<"completed">>}
MovePriorities == {"high", "backlog"}
SetStatuses == {"pending", "completed"}
FilterPriorities == {<< >>, <<"high">>}
FilterStatuses == {<< >>, <<"completed">>}
ReqLimits == {<< >>, <<1>>}
NonPositiveLimits == {<<0>>, <<0 - 1>>}
ListLimits == {<< >>, <<1>>, <<2>>}
ReqPages == {<< >>, <<2>>, <<3>>}
ReqDueDates == {<< >>} \cup {<<now - 1>>, <<now>>, <<now + 1>>}
ReqPositions == {<< >>} \cup {<<p>> : p \in 0..MaxPos}
UserIds == 1..(MaxUsers + 1)
\* req.cookies.refreshToken: absent, or a token string, signed by the server or not
TokenStrings == [user : 1..MaxUsers, serial : 1..MaxTokens]
ReqCookies == {<< >>} \cup {<<t>> : t \in TokenStrings}
TaskIds == 1..(MaxTasks + 1)

(* ---------------- identifier values ---------------- *)
\* rep "num": a memoryStore counter value; rep "hex": a 24-digit string from a
\* request body; rep "oid": a mongoose ObjectId.
IdVal(rep, n) == [rep |-> rep, n |-> n]

\* a value as held by running code: ObjectIds are objects, so each load
\* yields its own instance (ref names the load that made it)
Inst(v, site) == [rep |-> v.rep, n |-> v.n, ref |-> IF v.rep = "oid" THEN site ELSE ""]

\* x.toString(): decimal for a number, the 24 hex digits for an ObjectId,
\* the string itself for a string
ToStr(v) == [fmt |-> IF v.rep = "num" THEN "dec" ELSE "hex24", n |-> v.n]

\* a == b of JavaScript: two objects are equal only when they are the same
\* instance; a number and a digit string compare by numeric value
LooseEq(a, b) ==
  IF a.rep = "oid" /\ b.rep = "oid" THEN a.ref = b.ref
  ELSE a.n = b.n

Opt(o, default) == IF o = << >> THEN default ELSE o[1]

(* ---------------- sequences ---------------- *)
\* Array.prototype.slice(from, to): 0-based, from inclusive, to exclusive; a
\* negative index counts back from the end of the array
Slice(s, from, to) ==
  LET n == Len(s)
      Rel(k) == IF k < 0 THEN (IF n + k < 0 THEN 0 ELSE n + k) ELSE (IF k > n THEN n ELSE k)
      lo == Rel(from)
      hi == Rel(to)
  IN IF hi <= lo THEN << >> ELSE SubSeq(s, lo + 1, hi)

\* String comparison of the priority values, as MongoDB sorts them
AlphaRank(p) ==
  CASE p = "backlog" -> 0 [] p = "high" -> 1 [] p = "low" -> 2 [] p = "medium" -> 3

\* sort({ position: 1, createdAt: -1 })
LaneBefore(a, b) ==
  \/ a.position < b.position
  \/ a.position = b.position /\ a.createdAt > b.createdAt

\* sort({ priority: 1, position: 1, createdAt: -1 })
ListBefore(a, b) ==
  \/ AlphaRank(a.priority) < AlphaRank(b.priority)
  \/ a.priority = b.priority /\ LaneBefore(a, b)

Before(order, a, b) == IF order = "lane" THEN LaneBefore(a, b) ELSE ListBefore(a, b)

\* cursor.sort(): stable, documents that tie keep the collection's order
RECURSIVE InsertSorted(_, _, _)
InsertSorted(s, x, order) ==
  IF s = << >> THEN <<x>>
  ELSE IF Before(order, x, s[1]) THEN <<x>> \o s
  ELSE <<s[1]>> \o InsertSorted(Tail(s), x, order)

RECURSIVE SortBy(_, _)
SortBy(s, order) ==
  IF s = << >> THEN << >>
  ELSE InsertSorted(SortBy(SubSeq(s, 1, Len(s) - 1), order), s[Len(s)], order)

Range(s) == {s[i] : i \in 1..Len(s)}

\* the first of the matching elements as an optional, like Array.find / findOne
FindFirst(matching) == IF matching = << >> THEN << >> ELSE <<matching[1]>>

\* findIndex + splice(index, 1): s without its first element at an index in idx
RemoveFirst(s, idx) ==
  IF idx = {} THEN s
  ELSE LET k == CHOOSE i \in idx : \A j \in idx : i <= j
       IN SubSeq(s, 1, k - 1) \o SubSeq(s, k + 1, Len(s))

(* ---------------- the stores ---------------- *)
\* the representation the active store gives to identifier n
StoreId(n) == IdVal(IF mongoConnected THEN "oid" ELSE "num", n)
\* an identifier arriving in a request body or URL: a 24-digit string
BodyId(n) == IdVal("hex", n)

\* memoryStore.users.findById / User.findById
UsersFindById(id) == FindFirst(SelectSeq(users, LAMBDA x : x._id.n = id.n))
\* variant: the lookup finds nobody
UsersFindByEmail_Never(email) == << >>

\* memoryStore.users.findByEmail / User.findOne({ email })
UsersFindByEmail(email) == FindFirst(SelectSeq(users, LAMBDA x : x.email = email))
\* memoryStore.tasks.findById / Task.findById
TasksFindById(id) == FindFirst(SelectSeq(tasks, LAMBDA t : t._id.n = id.n))
\* memoryStore.tasks.findByAssignee
FindByAssignee(assigneeId) ==
  SelectSeq(tasks, LAMBDA t : LooseEq(Inst(t.assignee, "store"), Inst(assigneeId, "arg")) /\ ~t.isArchived)
\* Task.find / countDocuments filter { assignee, priority, isArchived: false }
LaneQuery(assigneeId, priority) ==
  SelectSeq(tasks, LAMBDA t : t.assignee.n = assigneeId.n /\ t.priority = priority /\ ~t.isArchived)

ExistingUserIds == {users[i]._id.n : i \in 1..Len(users)}

\* the response of the last request: the handler, the kind of outcome
\* (ok | validation | not_found | forbidden | exists | unauthorized |
\* server_error), the
\* fields a validation failure lists, and for reads the payload
Failure(op, kind, fields) == [op |-> op, kind |-> kind, fields |-> fields]
Ok(op) == [op |-> op, kind |-> "ok", fields |-> {}]
NoResp == [op |-> "none", kind |-> "none", fields |-> {}]

\* new ApiClient(): no access token in localStorage, no request under way.
\* accessToken is the stored token (a serial); phase, retry (config._retry),
\* authorization (the header of the last send) and sends describe the
\* request under way; refreshCalls counts the POST /auth/refresh requests
\* made for it; cookieValid says whether the refresh cookie the browser
\* holds passes the server's checks.
NewApiClient ==
  [accessToken |-> << >>, phase |-> "idle", retry |-> FALSE, authorization |-> << >>,
   sends |-> 0, refreshCalls |-> 0, cookieValid |-> FALSE, received |-> 0, started |-> 0]

\* new QueryClient(): nothing cached under taskKeys.board(), no mutation
\* started.  board is << >> (undefined) or <<data>>; a mutation is its hook,
\* its variables, the context its onMutate returned, its status (pending,
\* error, success) and the order in which it was started.
NewQueryCache == [board |-> << >>, mutations |-> {}, started |-> 0]

Init ==
  /\ mongoConnected \in BOOLEAN
  /\ users = << >>
  /\ userIdCounter = 1
  /\ tasks = << >>
  /\ taskIdCounter = 1
  /\ now = 1
  /\ resp = NoResp
  /\ inflight = {}
  /\ issuedTokens = {}
  /\ refreshTokens = {}
  /\ spentTokens = {}
  /\ apiClient = NewApiClient
  /\ queryCache = NewQueryCache

(* ---------------- middleware ---------------- *)
\* authenticate: req.user is an existing, active user
Authenticated(u) == \E i \in 1..Len(users) : users[i]._id.n = u /\ users[i].isActive

\* variant: only the assignee owns a task
checkOwnership_AssigneeOnly(reqUserId, resource) ==
  IF resource = << >> THEN FALSE
  ELSE ToStr(resource[1].assignee) = ToStr(reqUserId)

\* req.checkOwnership(resource); resource is << >> when absent
checkOwnership(reqUserId, resource) ==
  IF resource = << >> THEN FALSE
  ELSE LET isAssignee == ToStr(resource[1].assignee) = ToStr(reqUserId)
           isCreator == ToStr(resource[1].createdBy) = ToStr(reqUserId)
       IN isAssignee \/ isCreator

\* variant: a due date equal to the current time is accepted
DueDateRejected_Strict(dueDate, clock) == dueDate # << >> /\ dueDate[1] < clock

\* validateTask, body('dueDate').custom: new Date(value) <= new Date() throws
DueDateRejected(dueDate, clock) == dueDate # << >> /\ dueDate[1] <= clock

\* validateTask, body('title'): trimmed length within 1..200
TitleRejected(titleLen) == titleLen < 1 \/ titleLen > TitleMaxLen

\* the fields validateTask reports
validateTask(titleLen, dueDate) ==
  (IF TitleRejected(titleLen) THEN {"title"} ELSE {})
    \cup (IF DueDateRejected(dueDate, now) THEN {"dueDate"} ELSE {})

(* ---------------- register ---------------- *)
(* ---------------- refresh tokens ---------------- *)
\* generateRefreshToken(userId): jwt.sign({ userId }, secret, ...).  A token
\* is the user it names and a serial that stands for its issue time; every
\* token signed gets a new serial.
generateRefreshToken(u) == [user |-> u, serial |-> Cardinality(issuedTokens) + 1]

\* user.addRefreshToken(token), user.removeRefreshToken(token),
\* user.removeAllRefreshTokens(), User.findByRefreshToken(token): the User
\* document holds the set of its currently valid refresh tokens
AddRefreshToken(stored, tok) == stored \cup {tok}
RemoveRefreshToken(stored, tok) == stored \ {tok}
RemoveAllRefreshTokens(stored, u) == {t \in stored : t.user # u}
FindByRefreshToken(tok) ==
  IF tok \in refreshTokens THEN UsersFindById(IdVal("oid", tok.user)) ELSE << >>

\* generateTokens(user._id), then on the database branch
\* user.addRefreshToken(refreshToken); the memory branch stores no token
IssueTokens(u) ==
  LET tok == generateRefreshToken(u)
  IN /\ issuedTokens' = issuedTokens \cup {tok}
     /\ refreshTokens' = IF mongoConnected THEN AddRefreshToken(refreshTokens, tok)
                         ELSE refreshTokens

register(email) ==
  /\ IF UsersFindByEmail(email) # << >>
     THEN /\ resp' = Failure("register", "exists", {})
          /\ UNCHANGED <<users, userIdCounter, issuedTokens, refreshTokens>>
     ELSE /\ users' = Append(users, [_id |-> StoreId(userIdCounter), email |-> email, isActive |-> TRUE])
          /\ userIdCounter' = userIdCounter + 1
          /\ IssueTokens(userIdCounter)
          /\ resp' = Ok("register")
  /\ UNCHANGED <<frontVars, inflight, mongoConnected, tasks, taskIdCounter, now, spentTokens>>

\* register, step by step. The handler checks the email, then awaits
\* (bcrypt.genSalt / bcrypt.hash on the memory branch, the round trip of
\* User.findOne on the database branch), then creates the record; other
\* requests run during the awaits. inflight holds the requests that have
\* passed the check and not yet created their record.
RequestIds == 1..MaxInflight

\* the unique index on User.email: an insert of a stored email is refused
EmailIndexRejects(email) == UsersFindByEmail(email) # << >>

\* register up to and including the existence check
registerCheck(rid, email) ==
  /\ \A r \in inflight : r.rid # rid
  /\ IF UsersFindByEmail(email) # << >>
     THEN /\ resp' = Failure("register", "exists", {})
          /\ UNCHANGED inflight
     ELSE /\ inflight' = inflight \cup {[rid |-> rid, op |-> "register", email |-> email]}
          /\ UNCHANGED resp
  /\ UNCHANGED <<frontVars, authVars, mongoConnected, users, userIdCounter, tasks, taskIdCounter, now>>

\* register after the awaits: User.create / memoryStore.users.create
registerCreate(rid) ==
  \E r \in inflight :
    /\ r.rid = rid /\ r.op = "register"
    /\ inflight' = inflight \ {r}
    /\ IF mongoConnected /\ EmailIndexRejects(r.email)
       THEN /\ resp' = Failure("register", "server_error", {})
            /\ UNCHANGED <<users, userIdCounter, issuedTokens, refreshTokens>>
       ELSE /\ users' = Append(users, [_id |-> StoreId(userIdCounter), email |-> r.email,
                                       isActive |-> TRUE])
            /\ userIdCounter' = userIdCounter + 1
            /\ IssueTokens(userIdCounter)
            /\ resp' = Ok("register")
    /\ UNCHANGED <<frontVars, mongoConnected, tasks, taskIdCounter, now, spentTokens>>

(* ---------------- login, refresh, logout ---------------- *)
\* login with the right password: the handler issues tokens as register does
login(email) ==
  LET user == UsersFindByEmail(email)
  IN
  /\ IF user = << >>
     THEN /\ resp' = Failure("login", "unauthorized", {})
          /\ UNCHANGED <<issuedTokens, refreshTokens>>
     ELSE /\ IssueTokens(user[1]._id.n)
          /\ resp' = Ok("login")
  /\ UNCHANGED <<frontVars, spentTokens, inflight, mongoConnected, users, userIdCounter, tasks, taskIdCounter, now>>

\* refreshToken, up to its first write.  A missing cookie and a token that
\* verifyToken rejects are answered 401.  Database branch: the user is looked
\* up by the stored token, the new tokens are generated, and the handler
\* then awaits user.removeRefreshToken.  Memory branch: the user is looked up
\* by decoded.userId, no token is stored or looked up, and the handler
\* answers at once.
refreshFind(rid, cookie) ==
  LET token == cookie[1]
      user == IF mongoConnected THEN FindByRefreshToken(token)
              ELSE UsersFindById(IdVal("num", token.user))
      newRefreshToken == generateRefreshToken(token.user)
      Rejected == /\ resp' = Failure("refresh", "unauthorized", {})
                  /\ UNCHANGED <<frontVars, authVars, inflight>>
  IN
  /\ \A r \in inflight : r.rid # rid
  /\ IF cookie = << >> THEN Rejected
     ELSE IF token \notin issuedTokens THEN Rejected
     ELSE IF user = << >> \/ user[1]._id.n # token.user \/ ~user[1].isActive THEN Rejected
     ELSE /\ issuedTokens' = issuedTokens \cup {newRefreshToken}
          /\ IF mongoConnected
             THEN /\ inflight' = inflight \cup {[rid |-> rid, op |-> "refresh", token |-> token,
                                                 newRefreshToken |-> newRefreshToken]}
                  /\ UNCHANGED <<resp, refreshTokens, spentTokens>>
             ELSE /\ resp' = Ok("refresh") @@ [presented |-> token, cookie |-> newRefreshToken]
                  /\ spentTokens' = spentTokens \cup {token}
                  /\ UNCHANGED <<refreshTokens, inflight>>
  /\ UNCHANGED <<frontVars, mongoConnected, users, userIdCounter, tasks, taskIdCounter, now>>

\* database branch: user.removeRefreshToken(token), user.addRefreshToken(new),
\* the cookie and the 200 response
refreshRotate(rid) ==
  \E r \in inflight :
    /\ r.rid = rid /\ r.op = "refresh"
    /\ refreshTokens' = AddRefreshToken(RemoveRefreshToken(refreshTokens, r.token), r.newRefreshToken)
    /\ resp' = Ok("refresh") @@ [presented |-> r.token, cookie |-> r.newRefreshToken]
    /\ spentTokens' = spentTokens \cup {r.token}
    /\ inflight' = inflight \ {r}
    /\ UNCHANGED <<frontVars, issuedTokens, mongoConnected, users, userIdCounter, tasks, taskIdCounter, now>>

\* logout: on the database branch the presented token is removed from the
\* user that holds it; the memory branch removes nothing
logout(u, cookie) ==
  /\ Authenticated(u)
  /\ refreshTokens' = IF cookie # << >> /\ mongoConnected /\ FindByRefreshToken(cookie[1]) # << >>
                      THEN RemoveRefreshToken(refreshTokens, cookie[1])
                      ELSE refreshTokens
  /\ spentTokens' = spentTokens \cup Range(cookie)
  /\ resp' = Ok("logout")
  /\ UNCHANGED <<frontVars, issuedTokens, inflight, mongoConnected, users, userIdCounter, tasks, taskIdCounter, now>>

\* logoutAll: on the database branch req.user.removeAllRefreshTokens()
logoutAll(u, cookie) ==
  /\ Authenticated(u)
  /\ refreshTokens' = IF mongoConnected THEN RemoveAllRefreshTokens(refreshTokens, u)
                      ELSE refreshTokens
  /\ spentTokens' = spentTokens \cup Range(cookie)
  /\ resp' = Ok("logoutAll")
  /\ UNCHANGED <<frontVars, issuedTokens, inflight, mongoConnected, users, userIdCounter, tasks, taskIdCounter, now>>

(* ---------------- createTask ---------------- *)
\* const taskAssignee = assignee || req.user._id
TaskAssignee(assignee, reqUserId) == IF assignee # << >> THEN assignee[1] ELSE reqUserId

\* variant: the creator is copied from the assignee
TaskCreator_FromAssignee(taskAssignee, reqUserId) == taskAssignee

\* createdBy: req.user._id
TaskCreator(taskAssignee, reqUserId) == reqUserId

\* database branch: Task.findOne({assignee, priority, isArchived:false}).sort({position:-1})
DbNextPosition(taskAssignee, priority) ==
  LET lane == LaneQuery(taskAssignee, priority)
  IN IF lane = << >> THEN 0
     ELSE LET lastTask == CHOOSE t \in Range(lane) : \A o \in Range(lane) : o.position <= t.position
          IN lastTask.position + 1

\* memory branch: findByAssignee(taskAssignee).filter(priority).length
MemNextPosition(taskAssignee, priority) ==
  Len(SelectSeq(FindByAssignee(taskAssignee), LAMBDA t : t.priority = priority))

NextPosition(taskAssignee, priority) ==
  IF mongoConnected THEN DbNextPosition(taskAssignee, priority)
  ELSE MemNextPosition(taskAssignee, priority)

\* what the store keeps for the assignee: the schema casts it to an ObjectId,
\* the memory store keeps the value it was given
StoredAssignee(taskAssignee) ==
  IF mongoConnected THEN IdVal("oid", taskAssignee.n) ELSE taskAssignee

createTask(u, titleLen, dueDate, priorityIn, statusIn, assigneeIn) ==
  LET reqUserId == StoreId(u)
      assignee == IF assigneeIn = << >> THEN << >> ELSE <<BodyId(assigneeIn[1])>>
      priority == Opt(priorityIn, "backlog")
      status == Opt(statusIn, "pending")
      taskAssignee == TaskAssignee(assignee, reqUserId)
      invalid == validateTask(titleLen, dueDate)
      task == [_id |-> StoreId(taskIdCounter), titleLen |-> titleLen, dueDate |-> dueDate,
               priority |-> priority, status |-> status,
               assignee |-> StoredAssignee(taskAssignee),
               createdBy |-> TaskCreator(taskAssignee, reqUserId),
               position |-> NextPosition(taskAssignee, priority),
               createdAt |-> now, isArchived |-> FALSE]
  IN
  /\ Authenticated(u)
  /\ IF invalid # {}
     THEN /\ resp' = Failure("createTask", "validation", invalid)
          /\ UNCHANGED <<tasks, taskIdCounter, now>>
     ELSE IF UsersFindById(taskAssignee) = << >>
     THEN /\ resp' = Failure("createTask", "not_found", {})
          /\ UNCHANGED <<tasks, taskIdCounter, now>>
     ELSE /\ tasks' = Append(tasks, task)
          /\ taskIdCounter' = taskIdCounter + 1
          /\ now' = now + 1
          /\ resp' = Ok("createTask") @@ [task |-> task]
  /\ UNCHANGED <<frontVars, authVars, inflight, mongoConnected, users, userIdCounter>>

\* createTask, one await at a time.  Database branch: User.findById and
\* Task.findOne(...).sort({position: -1}) are awaited before Task.create, so
\* the position is computed from the lane as it was read.  The memory branch
\* makes no await between its read and its insert and runs as one step.
createRead(rid, u, priorityIn, assigneeIn) ==
  LET reqUserId == StoreId(u)
      assignee == IF assigneeIn = << >> THEN << >> ELSE <<BodyId(assigneeIn[1])>>
      priority == Opt(priorityIn, "backlog")
      taskAssignee == TaskAssignee(assignee, reqUserId)
  IN
  /\ \A r \in inflight : r.rid # rid
  /\ IF mongoConnected
     THEN /\ Authenticated(u)
          /\ IF UsersFindById(taskAssignee) = << >>
             THEN /\ resp' = Failure("createTask", "not_found", {})
                  /\ UNCHANGED inflight
             ELSE /\ inflight' = inflight \cup
                        {[rid |-> rid, op |-> "createTask", u |-> u, priority |-> priority,
                          taskAssignee |-> taskAssignee,
                          position |-> DbNextPosition(taskAssignee, priority)]}
                  /\ UNCHANGED resp
          /\ UNCHANGED <<frontVars, authVars, mongoConnected, users, userIdCounter, tasks, taskIdCounter, now>>
     ELSE createTask(u, 1, << >>, priorityIn, << >>, assigneeIn)

\* Task.create({..., position}) and the 201 response
createInsert(rid) ==
  \E r \in inflight :
    /\ r.rid = rid /\ r.op = "createTask"
    /\ LET task == [_id |-> StoreId(taskIdCounter), titleLen |-> 1, dueDate |-> << >>,
                    priority |-> r.priority, status |-> "pending",
                    assignee |-> StoredAssignee(r.taskAssignee),
                    createdBy |-> TaskCreator(r.taskAssignee, StoreId(r.u)),
                    position |-> r.position,
                    createdAt |-> now, isArchived |-> FALSE]
       IN /\ tasks' = Append(tasks, task)
          /\ resp' = Ok("createTask") @@ [task |-> task]
    /\ taskIdCounter' = taskIdCounter + 1
    /\ now' = now + 1
    /\ inflight' = inflight \ {r}
    /\ UNCHANGED <<frontVars, authVars, mongoConnected, users, userIdCounter>>

(* ---------------- getTask ---------------- *)
\* populate('assignee') / the memory branch's { _id: assignee._id, ... }:
\* << >> when the referenced user is missing, else the user's _id as loaded
Populate(ref, site) ==
  LET found == UsersFindById(ref)
  IN IF found = << >> THEN << >> ELSE <<[_id |-> Inst(found[1]._id, site)]>>

\* document == req.user._id: an object against an ObjectId or a number
DocLooseEqId(doc, reqUserId) == FALSE

\* task.assignee && (task.assignee._id == req.user._id || task.assignee == req.user._id) ||
\* task.createdBy && (task.createdBy._id == req.user._id || task.createdBy == req.user._id)
canAccess(assigneeDoc, createdByDoc, reqUserId) ==
  \/ assigneeDoc # << >>
       /\ (LooseEq(assigneeDoc[1]._id, reqUserId) \/ DocLooseEqId(assigneeDoc[1], reqUserId))
  \/ createdByDoc # << >>
       /\ (LooseEq(createdByDoc[1]._id, reqUserId) \/ DocLooseEqId(createdByDoc[1], reqUserId))

getTask(u, id) ==
  LET reqUserId == Inst(StoreId(u), "req.user")
      task == TasksFindById(BodyId(id))
  IN
  /\ Authenticated(u)
  /\ resp' =
       IF task = << >>
       THEN Failure("getTask", "not_found", {})
       ELSE IF ~canAccess(Populate(task[1].assignee, "task.assignee"),
                          Populate(task[1].createdBy, "task.createdBy"), reqUserId)
       THEN Failure("getTask", "forbidden", {})
       ELSE Ok("getTask") @@ [task |-> task[1]]
  /\ UNCHANGED <<frontVars, authVars, inflight, mongoConnected, users, userIdCounter, tasks, taskIdCounter, now>>

(* ---------------- handlers that only use the Task model ---------------- *)
\* variant: the update is applied to every document
ReplaceTask_All(id, new) == [i \in 1..Len(tasks) |-> new]

\* variant: the update also stamps the assignee as creator
ReplaceTask_Restamp(id, new) ==
  [i \in 1..Len(tasks) |->
     IF tasks[i]._id.n = id.n THEN [new EXCEPT !.createdBy = new.assignee] ELSE tasks[i]]

\* variant: the write adds the new version of the document as one more record
ReplaceTask_Append(id, new) ==
  Append([i \in 1..Len(tasks) |-> IF tasks[i]._id.n = id.n THEN new ELSE tasks[i]], new)

\* Task.findByIdAndUpdate(id, update): replaces the matching document
ReplaceTask(id, new) == [i \in 1..Len(tasks) |-> IF tasks[i]._id.n = id.n THEN new ELSE tasks[i]]

\* variant: the delete empties the collection
DeleteById_All(id) == << >>

\* Task.findByIdAndDelete / memoryStore.tasks.deleteById
DeleteById(id) == RemoveFirst(tasks, {i \in 1..Len(tasks) : tasks[i]._id.n = id.n})

\* Without a connection Task.findById fails and the handler passes the error
\* to next(): the four handlers below have no memory-store branch.
\* the common head of the four handlers: load, 404, ownership, 403.
\* Yields the response kind, "pass" when the handler goes on to its write.
LoadAndCheck(u, id) ==
  LET task == TasksFindById(BodyId(id))
  IN IF task = << >> THEN "not_found"
     ELSE IF ~checkOwnership(StoreId(u), task) THEN "forbidden"
     ELSE "pass"

updateTask(u, id, titleLen, dueDate, priorityIn, statusIn, assigneeIn) ==
  LET invalid == validateTask(titleLen, dueDate)
      task == TasksFindById(BodyId(id))
      head == LoadAndCheck(u, id)
      assignee == IF assigneeIn = << >> THEN << >> ELSE <<BodyId(assigneeIn[1])>>
      changing == assignee # << >> /\ ToStr(assignee[1]) # ToStr(task[1].assignee)
      updated == [task[1] EXCEPT
                    !.titleLen = titleLen,
                    !.dueDate = IF dueDate = << >> THEN @ ELSE dueDate,
                    !.priority = Opt(priorityIn, @),
                    !.status = Opt(statusIn, @),
                    !.assignee = IF assignee = << >> THEN @ ELSE IdVal("oid", assignee[1].n)]
      R(kind) == Failure("updateTask", kind, {})
  IN
  /\ Authenticated(u)
  /\ IF invalid # {}
     THEN resp' = Failure("updateTask", "validation", invalid) /\ UNCHANGED tasks
     ELSE IF ~mongoConnected
     THEN resp' = R("server_error") /\ UNCHANGED tasks
     ELSE IF head # "pass"
     THEN resp' = R(head) /\ UNCHANGED tasks
     ELSE IF changing /\ UsersFindById(assignee[1]) = << >>
     THEN resp' = R("not_found") /\ UNCHANGED tasks
     ELSE /\ tasks' = ReplaceTask(task[1]._id, updated)
          /\ resp' = R("ok")
  /\ UNCHANGED <<frontVars, authVars, inflight, mongoConnected, users, userIdCounter, taskIdCounter, now>>

updateTaskStatus(u, id, status) ==
  LET task == TasksFindById(BodyId(id))
      head == LoadAndCheck(u, id)
      R(kind) == Failure("updateTaskStatus", kind, {})
  IN
  /\ Authenticated(u)
  /\ IF ~mongoConnected
     THEN resp' = R("server_error") /\ UNCHANGED tasks
     ELSE IF head # "pass"
     THEN resp' = R(head) /\ UNCHANGED tasks
     ELSE /\ tasks' = ReplaceTask(task[1]._id, [task[1] EXCEPT !.status = status])
          /\ resp' = R("ok")
  /\ UNCHANGED <<frontVars, authVars, inflight, mongoConnected, users, userIdCounter, taskIdCounter, now>>

\* variant: a move without a position puts the task at position 0
updateTaskPriority_ResetPosition(u, id, priority, position) ==
  LET task == TasksFindById(BodyId(id))
      head == LoadAndCheck(u, id)
      updateData == [task[1] EXCEPT !.priority = priority,
                                    !.position = IF position # << >> THEN position[1] ELSE 0]
      R(kind) == Failure("updateTaskPriority", kind, {})
  IN
  /\ Authenticated(u)
  /\ IF ~mongoConnected
     THEN resp' = R("server_error") /\ UNCHANGED tasks
     ELSE IF head # "pass"
     THEN resp' = R(head) /\ UNCHANGED tasks
     ELSE /\ tasks' = ReplaceTask(task[1]._id, updateData)
          /\ resp' = R("ok")
  /\ UNCHANGED <<frontVars, authVars, inflight, mongoConnected, users, userIdCounter, taskIdCounter, now>>

updateTaskPriority(u, id, priority, position) ==
  LET task == TasksFindById(BodyId(id))
      head == LoadAndCheck(u, id)
      updateData == [task[1] EXCEPT !.priority = priority,
                                    !.position = IF position # << >> THEN position[1] ELSE @]
      R(kind) == Failure("updateTaskPriority", kind, {})
  IN
  /\ Authenticated(u)
  /\ IF ~mongoConnected
     THEN resp' = R("server_error") /\ UNCHANGED tasks
     ELSE IF head # "pass"
     THEN resp' = R(head) /\ UNCHANGED tasks
     ELSE /\ tasks' = ReplaceTask(task[1]._id, updateData)
          /\ resp' = R("ok")
  /\ UNCHANGED <<frontVars, authVars, inflight, mongoConnected, users, userIdCounter, taskIdCounter, now>>

deleteTask(u, id) ==
  LET head == LoadAndCheck(u, id)
      R(kind) == Failure("deleteTask", kind, {})
  IN
  /\ Authenticated(u)
  /\ IF ~mongoConnected
     THEN resp' = R("server_error") /\ UNCHANGED tasks
     ELSE IF head # "pass"
     THEN resp' = R(head) /\ UNCHANGED tasks
     ELSE /\ tasks' = DeleteById(BodyId(id))
          /\ resp' = R("ok")
  /\ UNCHANGED <<frontVars, authVars, inflight, mongoConnected, users, userIdCounter, taskIdCounter, now>>

(* ---------------- the four handlers, step by step ---------------- *)
\* Each of updateTask, updateTaskStatus, updateTaskPriority and deleteTask
\* awaits Task.findById, checks ownership on the loaded document, and then
\* awaits Task.findByIdAndUpdate / findByIdAndDelete, which selects by id
\* alone; other requests run between the two awaits.
WriteOps == {"updateTask", "updateTaskStatus", "updateTaskPriority", "deleteTask"}

\* the update document each handler passes: fields that are undefined are
\* not written
NoChange == [assignee |-> << >>, status |-> << >>, priority |-> << >>, position |-> << >>]
WriteRequests ==
  {[op |-> "updateTask", change |-> [NoChange EXCEPT !.assignee = <<a>>]] : a \in 1..MaxUsers}
    \cup {[op |-> "updateTaskStatus", change |-> [NoChange EXCEPT !.status = <<"completed">>]],
          [op |-> "updateTaskPriority", change |-> [NoChange EXCEPT !.priority = <<"high">>]],
          [op |-> "deleteTask", change |-> NoChange]}

\* the document after the update is applied to document t
ApplyChange(t, change) ==
  [t EXCEPT !.assignee = IF change.assignee = << >> THEN @ ELSE IdVal("oid", change.assignee[1]),
            !.status = Opt(change.status, @),
            !.priority = Opt(change.priority, @),
            !.position = Opt(change.position, @)]

\* first half: Task.findById, 404, req.checkOwnership(task), 403, and for
\* updateTask the lookup of a new assignee
writeLoad(rid, op, u, id, change) ==
  LET head == LoadAndCheck(u, id)
      task == TasksFindById(BodyId(id))
      changing == change.assignee # << >>
                    /\ ToStr(BodyId(change.assignee[1])) # ToStr(task[1].assignee)
      R(kind) == Failure(op, kind, {})
  IN
  /\ \A r \in inflight : r.rid # rid
  /\ Authenticated(u)
  /\ IF ~mongoConnected
     THEN resp' = R("server_error") /\ UNCHANGED inflight
     ELSE IF head # "pass"
     THEN resp' = R(head) /\ UNCHANGED inflight
     ELSE IF op = "updateTask" /\ changing /\ UsersFindById(BodyId(change.assignee[1])) = << >>
     THEN resp' = R("not_found") /\ UNCHANGED inflight
     ELSE /\ inflight' = inflight \cup {[rid |-> rid, op |-> op, u |-> u, id |-> id, change |-> change]}
          /\ UNCHANGED resp
  /\ UNCHANGED <<frontVars, authVars, mongoConnected, users, userIdCounter, tasks, taskIdCounter, now>>

\* second half: Task.findByIdAndUpdate(req.params.id, update) or
\* Task.findByIdAndDelete(req.params.id), then the 200 response; a document
\* that is gone by now leaves the collection as it is
writeApply(rid) ==
  \E r \in inflight :
    /\ r.rid = rid /\ r.op \in WriteOps
    /\ LET task == TasksFindById(BodyId(r.id))
       IN tasks' = IF task = << >> THEN tasks
                   ELSE IF r.op = "deleteTask" THEN DeleteById(BodyId(r.id))
                   ELSE ReplaceTask(task[1]._id, ApplyChange(task[1], r.change))
    /\ resp' = Failure(r.op, "ok", {})
    /\ inflight' = inflight \ {r}
    /\ UNCHANGED <<frontVars, authVars, mongoConnected, users, userIdCounter, taskIdCounter, now>>

(* ---------------- ApiClient ---------------- *)
HttpStatuses == {200, 401, 500}
Settled == {"idle", "resolved", "rejected"}

\* variant: every 401 is followed by a refresh
ShouldRefresh_Always(status, retry) == status = 401

\* error.response?.status === 401 && !originalRequest._retry
ShouldRefresh(status, retry) == status = 401 /\ ~retry

\* one more POST /auth/refresh; the count stops at MaxRefreshCalls
OneMoreRefresh(n) == IF n < MaxRefreshCalls THEN n + 1 ELSE MaxRefreshCalls

\* apiClient.login(credentials) answered 200: setToken(accessToken), and the
\* response sets a fresh refresh cookie
clientLogin ==
  /\ apiClient.phase \in Settled
  /\ apiClient' = [apiClient EXCEPT !.accessToken = <<apiClient.received + 1>>,
                                    !.received = @ + 1,
                                    !.cookieValid = TRUE]
  /\ UNCHANGED <<serverVars, queryCache>>

\* the refresh cookie expires or its token is revoked on the server
cookieInvalidated ==
  /\ apiClient.cookieValid
  /\ apiClient' = [apiClient EXCEPT !.cookieValid = FALSE]
  /\ UNCHANGED <<serverVars, queryCache>>

\* this.client(config): the request interceptor attaches the stored token
clientRequest ==
  /\ apiClient.phase \in Settled
  /\ apiClient' = [apiClient EXCEPT !.phase = "sent", !.retry = FALSE,
                                    !.authorization = apiClient.accessToken,
                                    !.sends = 1, !.refreshCalls = 0, !.started = @ + 1]
  /\ UNCHANGED <<serverVars, queryCache>>

\* the response interceptor on the answer to the request: a 2xx resolves, a
\* 401 on a request not yet retried marks it and calls this.refreshToken(),
\* anything else rejects
responseInterceptor(status) ==
  /\ apiClient.phase \in {"sent", "resent"}
  /\ apiClient' =
       IF status = 200 THEN [apiClient EXCEPT !.phase = "resolved"]
       ELSE IF ShouldRefresh(status, apiClient.retry)
       THEN [apiClient EXCEPT !.retry = TRUE, !.phase = "refreshing", !.refreshCalls = 1]
       ELSE [apiClient EXCEPT !.phase = "rejected"]
  /\ UNCHANGED <<serverVars, queryCache>>

\* the answer to POST /auth/refresh.  200 (the cookie is valid): setToken,
\* and the request is sent again with the new token.  401 (it is not): the
\* refresh request went through this.client, so the same response
\* interceptor handles its 401; its config is a new one without _retry, so
\* the interceptor calls this.refreshToken() again and awaits that.  Any
\* other failure rejects every pending refreshToken() in turn: clearToken(),
\* and the request is rejected.
refreshTokenAnswered(failed) ==
  /\ apiClient.phase = "refreshing"
  /\ apiClient' =
       IF failed
       THEN [apiClient EXCEPT !.accessToken = << >>, !.phase = "rejected"]
       ELSE IF apiClient.cookieValid
       THEN [apiClient EXCEPT !.accessToken = <<apiClient.received + 1>>,
                              !.received = @ + 1,
                              !.authorization = <<apiClient.received + 1>>,
                              !.sends = @ + 1,
                              !.phase = "resent"]
       ELSE IF ShouldRefresh(401, FALSE)
       THEN [apiClient EXCEPT !.refreshCalls = OneMoreRefresh(@)]
       ELSE [apiClient EXCEPT !.accessToken = << >>, !.phase = "rejected"]
  /\ UNCHANGED <<serverVars, queryCache>>

(* ---------------- React Query hooks: the board cache ---------------- *)
\* BoardData as the server returns it: the cached tasks are ids 1..MaxTasks,
\* each in the high or the backlog lane or not on the board
CacheLanes == {"high", "backlog"}
Column(ids, p) ==
  [tasks |-> [i \in 1..Cardinality(ids) |->
                [id |-> CHOOSE k \in ids : Cardinality({j \in ids : j < k}) = i - 1,
                 priority |-> p]],
   totalCount |-> Cardinality(ids), hasMore |-> FALSE]
ServerBoards ==
  {[p \in Priorities |-> Column({k \in 1..MaxTasks : place[k] = p}, p)] :
     place \in [1..MaxTasks -> CacheLanes \cup {"none"}]}

\* column.tasks.findIndex(task => task._id === id) !== -1
InColumn(column, id) == \E i \in 1..Len(column.tasks) : column.tasks[i].id = id

\* { ...column, tasks: column.tasks.filter(task => task._id !== id),
\*   totalCount: column.totalCount - 1 }
WithoutTask(column, id) ==
  [column EXCEPT !.tasks = SelectSeq(@, LAMBDA t : t.id # id), !.totalCount = @ - 1]

\* useDeleteTask.onMutate: the board without the task
DeleteOptimistic(board, id) ==
  [p \in Priorities |-> IF InColumn(board[p], id) THEN WithoutTask(board[p], id) ELSE board[p]]

\* useUpdateTaskPriority.onMutate: the task removed from the lane that holds
\* it (the last such lane in the order of the object's keys) and put first in
\* the new lane; the board itself when no lane holds the task
MoveOptimistic(board, id, newPriority) ==
  LET holding == {i \in 1..Len(PriorityOrder) : InColumn(board[PriorityOrder[i]], id)}
  IN IF holding = {} THEN board
     ELSE LET sourcePriority == PriorityOrder[CHOOSE i \in holding : \A j \in holding : j <= i]
              column == board[sourcePriority]
              k == CHOOSE i \in 1..Len(column.tasks) :
                     /\ column.tasks[i].id = id
                     /\ \A j \in 1..(i - 1) : column.tasks[j].id # id
              updatedTask == [column.tasks[k] EXCEPT !.priority = newPriority]
              removed == [board EXCEPT ![sourcePriority] = WithoutTask(column, id)]
          IN [removed EXCEPT ![newPriority] =
                [@ EXCEPT !.tasks = <<updatedTask>> \o @, !.totalCount = @ + 1]]

\* useBoardData: the answer of GET /tasks?board=true arrives and is cached
boardFetched(data) ==
  /\ queryCache' = [queryCache EXCEPT !.board = <<data>>]
  /\ UNCHANGED <<serverVars, apiClient>>

\* variant: the snapshot is taken after the optimistic change
Snapshot_After(before, after) == after

\* const previousBoardData = queryClient.getQueryData(taskKeys.board()), taken
\* before the optimistic change; returned as the mutation's context
Snapshot(before, after) == before

\* onMutate of useDeleteTask (hook "delete") and of useUpdateTaskPriority
\* (hook "priority"): snapshot, optimistic change when there is cached data,
\* and the context { previousBoardData }
onMutate(hook, id, newPriority) ==
  LET before == queryCache.board
      after == IF before = << >> THEN << >>
               ELSE IF hook = "delete" THEN <<DeleteOptimistic(before[1], id)>>
               ELSE <<MoveOptimistic(before[1], id, newPriority)>>
      mutation == [seq |-> queryCache.started + 1, hook |-> hook, id |-> id,
                   priority |-> newPriority, status |-> "pending",
                   previousBoardData |-> Snapshot(before, after)]
  IN /\ queryCache' = [queryCache EXCEPT !.board = after,
                                         !.mutations = @ \cup {mutation},
                                         !.started = @ + 1]
     /\ UNCHANGED <<serverVars, apiClient>>

\* variant: the rollback leaves the cache as it is
Rollback_Keep(board, previousBoardData) == board

\* onError: if (context?.previousBoardData) setQueryData(taskKeys.board(), it)
Rollback(board, previousBoardData) ==
  IF previousBoardData # << >> THEN previousBoardData ELSE board

\* the mutationFn rejects: onError
onError(seq) ==
  \E m \in queryCache.mutations :
    /\ m.seq = seq /\ m.status = "pending"
    /\ queryCache' = [queryCache EXCEPT !.board = Rollback(@, m.previousBoardData),
                                        !.mutations = (@ \ {m}) \cup {[m EXCEPT !.status = "error"]}]
    /\ UNCHANGED <<serverVars, apiClient>>

\* the mutationFn resolves: onSettled invalidates the board query, whose
\* refetch arrives as a later boardFetched
onSettled(seq) ==
  \E m \in queryCache.mutations :
    /\ m.seq = seq /\ m.status = "pending"
    /\ queryCache' = [queryCache EXCEPT !.mutations = (@ \ {m}) \cup {[m EXCEPT !.status = "success"]}]
    /\ UNCHANGED <<serverVars, apiClient>>

(* ---------------- getTasks ---------------- *)
\* variant: every page starts at the first document
SkipLimit_NoSkip(s, skip, limit) ==
  IF limit = 0 THEN Slice(s, 0, Len(s))
  ELSE Slice(s, 0, IF limit < 0 THEN 0 - limit ELSE limit)

\* cursor.skip(k).limit(n) of MongoDB: limit(0) is "no limit"
SkipLimit(s, skip, limit) ==
  IF limit = 0 THEN Slice(s, skip, Len(s))
  ELSE Slice(s, skip, skip + (IF limit < 0 THEN 0 - limit ELSE limit))

\* variant: rounds down
Ceil_Floor(a, b) == a \div b

\* Math.ceil(a / b) for b > 0
Ceil(a, b) == (a + b - 1) \div b

\* const priorities = ['high', 'medium', 'low', 'backlog']
BoardPriorities == {PriorityOrder[i] : i \in 1..Len(PriorityOrder)}

\* variant: a lane that is exactly full reports more
HasMore_AtLeast(totalCount, limit) == totalCount >= limit

\* hasMore: totalCount > limit
HasMore(totalCount, limit) == totalCount > limit

\* Task.getTasksByPriority(assigneeId, priority, page, limit)
getTasksByPriority(assigneeId, priority, page, limit) ==
  SkipLimit(SortBy(LaneQuery(assigneeId, priority), "lane"), (page - 1) * limit, limit)

\* Task.getBoardData(assigneeId, limit)
getBoardData(assigneeId, limit) ==
  [p \in BoardPriorities |->
     LET totalCount == Len(LaneQuery(assigneeId, p))
     IN [tasks |-> getTasksByPriority(assigneeId, p, 1, limit),
         totalCount |-> totalCount,
         hasMore |-> HasMore(totalCount, limit)]]

\* memory branch: findByAssignee(userId), then the priority and status filters
MemFiltered(userId, priority, status) ==
  SelectSeq(FindByAssignee(userId),
            LAMBDA t : /\ (priority = << >> \/ t.priority = priority[1])
                       /\ (status = << >> \/ t.status = status[1]))

\* memory branch, board === 'true'
MemBoardData(userId, limit, priority, status) ==
  LET filtered == MemFiltered(userId, priority, status)
  IN [p \in BoardPriorities |->
        LET lane == SelectSeq(filtered, LAMBDA t : t.priority = p)
        IN [tasks |-> Slice(lane, 0, limit),
            totalCount |-> Len(lane),
            hasMore |-> HasMore(Len(lane), limit)]]

\* database branch: Task.find(query) with query { assignee, isArchived: false, priority?, status? }
DbFiltered(userId, priority, status) ==
  SelectSeq(tasks,
            LAMBDA t : /\ t.assignee.n = userId.n /\ ~t.isArchived
                       /\ (priority = << >> \/ t.priority = priority[1])
                       /\ (status = << >> \/ t.status = status[1]))

Pagination(page, limit, total) ==
  LET totalPages == Ceil(total, limit)
  IN [page |-> page, limit |-> limit, totalPages |-> totalPages, totalTasks |-> total,
      hasNext |-> page < totalPages, hasPrev |-> page > 1]

\* database branch of the list: sort, skip, limit and the pagination block
DbList(userId, page, limit, priority, status) ==
  LET matching == SortBy(DbFiltered(userId, priority, status), "list")
  IN [tasks |-> SkipLimit(matching, (page - 1) * limit, limit),
      pagination |-> Pagination(page, limit, Len(matching))]

\* memory branch of the list: filteredTasks.slice(skip, skip + limit)
MemList(userId, page, limit, priority, status) ==
  LET matching == MemFiltered(userId, priority, status)
      skip == (page - 1) * limit
  IN [tasks |-> Slice(matching, skip, skip + limit),
      pagination |-> Pagination(page, limit, Len(matching))]

getTasks(u, pageIn, limitIn, priority, status, board) ==
  LET userId == StoreId(u)
      page == Opt(pageIn, DefaultPage)
      limit == Opt(limitIn, DefaultLimit)
  IN
  /\ Authenticated(u)
  /\ resp' =
       IF board
       THEN Ok("getBoard") @@
            [data |-> IF mongoConnected THEN getBoardData(userId, limit)
                      ELSE MemBoardData(userId, limit, priority, status)]
       ELSE Ok("getTasks") @@
            (IF mongoConnected THEN DbList(userId, page, limit, priority, status)
             ELSE MemList(userId, page, limit, priority, status))
  /\ UNCHANGED <<frontVars, authVars, inflight, mongoConnected, users, userIdCounter, tasks, taskIdCounter, now>>

(* ---------------- specification ---------------- *)
\* request bodies for POST /api/tasks and PUT /api/tasks/:id: a valid body, and
\* bodies that differ from it in the title, the due date or the assignee
TaskBodies ==
  {[titleLen |-> 1, dueDate |-> d, assignee |-> << >>] : d \in ReqDueDates}
    \cup {[titleLen |-> 0, dueDate |-> d, assignee |-> << >>] : d \in {<< >>, <<now>>}}
    \cup {[titleLen |-> 1, dueDate |-> << >>, assignee |-> <<a>>] : a \in UserIds}

\* PUT bodies: the due date is absent or rejected, so a full update changes
\* the assignee only (bounds the stored due dates to those set by create)
UpdateBodies ==
  {b \in TaskBodies : b.dueDate \in {<< >>, <<now>>} /\ (b.titleLen = 0 => b.dueDate = << >>)}

Next ==
  \/ \E email \in Emails : userIdCounter <= MaxUsers /\ register(email)
  \/ \E u \in UserIds, b \in TaskBodies :
       /\ taskIdCounter <= MaxTasks
       /\ createTask(u, b.titleLen, b.dueDate, << >>, << >>, b.assignee)
  \/ \E u \in UserIds, id \in TaskIds : getTask(u, id)
  \/ \E u \in UserIds, id \in TaskIds, b \in UpdateBodies :
       /\ updateTask(u, id, b.titleLen, b.dueDate, << >>, << >>, b.assignee)
  \/ \E u \in UserIds, id \in TaskIds : updateTaskStatus(u, id, "completed")
  \/ \E u \in UserIds, id \in TaskIds : updateTaskPriority(u, id, "high", << >>)
  \/ \E u \in UserIds, id \in TaskIds : deleteTask(u, id)
  \/ \E u \in UserIds, board \in BOOLEAN : getTasks(u, << >>, << >>, << >>, << >>, board)

Spec == Init /\ [][Next]_vars

\* the board specification: tasks are created in two lanes, moved and
\* repositioned, deleted, and the board is read with and without a limit and
\* with and without filter parameters
NextBoard ==
  \/ \E email \in Emails : userIdCounter <= MaxUsers /\ register(email)
  \/ \E u \in UserIds, pr \in ReqPriorities, st \in ReqStatuses,
        a \in {<< >>} \cup {<<x>> : x \in UserIds} :
       /\ taskIdCounter <= MaxTasks
       /\ createTask(u, 1, << >>, pr, st, a)
  \/ \E u \in UserIds, id \in TaskIds, pr \in MovePriorities, pos \in ReqPositions :
       updateTaskPriority(u, id, pr, pos)
  \/ \E u \in UserIds, id \in TaskIds : deleteTask(u, id)
  \/ \E u \in UserIds, limit \in ReqLimits, fp \in FilterPriorities, fs \in FilterStatuses :
       getTasks(u, << >>, limit, fp, fs, TRUE)

SpecBoard == Init /\ [][NextBoard]_vars

\* the list specification: tasks are created in two lanes with two statuses,
\* moved and repositioned, and the list is read page by page with and
\* without filter parameters
\* query strings of GET /api/tasks: every page and limit without filters, and
\* every filter combination on the first two pages of limit 1
ListQueries ==
  {[page |-> pg, limit |-> l, priority |-> << >>, status |-> << >>] :
     pg \in ReqPages, l \in ListLimits}
    \cup {[page |-> pg, limit |-> <<1>>, priority |-> fp, status |-> fs] :
            pg \in {<< >>, <<2>>}, fp \in FilterPriorities, fs \in FilterStatuses}

NextList ==
  \/ \E email \in Emails : userIdCounter <= MaxUsers /\ register(email)
  \/ \E u \in UserIds, pr \in ReqPriorities, st \in ReqStatuses,
        a \in {<< >>} \cup {<<x>> : x \in UserIds} :
       /\ taskIdCounter <= MaxTasks
       /\ createTask(u, 1, << >>, pr, st, a)
  \/ \E u \in UserIds, id \in TaskIds, pr \in MovePriorities, pos \in ReqPositions :
       updateTaskPriority(u, id, pr, pos)
  \/ \E u \in UserIds, q \in ListQueries :
       getTasks(u, q.page, q.limit, q.priority, q.status, FALSE)

SpecList == Init /\ [][NextList]_vars

\* the registration specification: register requests run step by step and
\* interleave; registered users create tasks and read their board
NextRegister ==
  \/ \E rid \in RequestIds, email \in Emails :
       /\ userIdCounter + Cardinality(inflight) <= MaxUsers
       /\ registerCheck(rid, email)
  \/ \E rid \in RequestIds : registerCreate(rid)
  \/ \E u \in UserIds :
       /\ taskIdCounter <= MaxTasks
       /\ createTask(u, 1, << >>, << >>, << >>, << >>)
  \/ \E u \in UserIds : getTasks(u, << >>, << >>, << >>, << >>, TRUE)

SpecRegister == Init /\ [][NextRegister]_vars

\* the limit specification: tasks are created in two lanes and the board is
\* read with a limit of zero and with a negative limit (GET /api/tasks has no
\* validator for its query string)
NextLimits ==
  \/ \E email \in Emails : userIdCounter <= MaxUsers /\ register(email)
  \/ \E u \in UserIds, pr \in ReqPriorities :
       /\ taskIdCounter <= MaxTasks
       /\ createTask(u, 1, << >>, pr, << >>, << >>)
  \/ \E u \in UserIds, limit \in NonPositiveLimits :
       getTasks(u, << >>, limit, << >>, << >>, TRUE)

SpecLimits == Init /\ [][NextLimits]_vars

\* the interleaving specification: fewer than MaxTasks tasks are created, for
\* oneself or another user, and full updates (reassignments), status updates, priority updates
\* and deletes run in two steps each, so that one request's write can fall
\* between another's load and write
NextWrites ==
  \/ \E email \in Emails : userIdCounter <= MaxUsers /\ register(email)
  \/ \E u \in UserIds, a \in {<< >>} \cup {<<x>> : x \in 1..MaxUsers} :
       /\ taskIdCounter < MaxTasks
       /\ createTask(u, 1, << >>, << >>, << >>, a)
  \/ \E rid \in RequestIds, w \in WriteRequests, u \in UserIds, id \in 1..MaxTasks :
       writeLoad(rid, w.op, u, id, w.change)
  \/ \E rid \in RequestIds : writeApply(rid)

SpecWrites == Init /\ [][NextWrites]_vars

\* the creation specification: tasks are only created, in two lanes, for
\* oneself or another user; on the database branch a create request reads
\* the lane and inserts in two steps, so two requests can interleave
NextCreates ==
  \/ \E email \in Emails : userIdCounter <= MaxUsers /\ register(email)
  \/ \E rid \in RequestIds, u \in UserIds, pr \in ReqPriorities,
        a \in {<< >>} \cup {<<x>> : x \in UserIds} :
       /\ taskIdCounter + Cardinality(inflight) <= MaxTasks
       /\ createRead(rid, u, pr, a)
  \/ \E rid \in RequestIds : createInsert(rid)
  \/ \E u \in UserIds : getTasks(u, << >>, << >>, << >>, << >>, TRUE)

SpecCreates == Init /\ [][NextCreates]_vars

\* the session specification: users register and log in, refresh tokens are
\* presented to refresh (in two steps on the database branch), logout and
\* logout-all; at most MaxTokens tokens are signed.  The cookie sent to
\* logout-all is one of the acting user's own.
NextAuth ==
  \/ \E email \in Emails :
       /\ userIdCounter <= MaxUsers /\ Cardinality(issuedTokens) < MaxTokens
       /\ register(email)
  \/ \E email \in Emails : Cardinality(issuedTokens) < MaxTokens /\ login(email)
  \/ \E rid \in RequestIds, cookie \in ReqCookies :
       /\ Cardinality(issuedTokens) < MaxTokens
       /\ refreshFind(rid, cookie)
  \/ \E rid \in RequestIds : refreshRotate(rid)
  \/ \E u \in UserIds, cookie \in ReqCookies : logout(u, cookie)
  \/ \E u \in UserIds, cookie \in ReqCookies :
       /\ (cookie # << >> => cookie[1].user = u)
       /\ logoutAll(u, cookie)

SpecAuth == Init /\ [][NextAuth]_vars

\* the client specification: the user logs in, the refresh cookie may become
\* invalid, requests are sent one after the other and answered with any
\* status, and refresh requests are answered according to the cookie or fail
NextClient ==
  \/ apiClient.received < MaxRequests /\ clientLogin
  \/ cookieInvalidated
  \/ apiClient.started < MaxRequests /\ clientRequest
  \/ \E status \in HttpStatuses : responseInterceptor(status)
  \/ \E failed \in BOOLEAN :
       /\ (~failed /\ apiClient.cookieValid) => apiClient.received < 2 * MaxRequests
       /\ refreshTokenAnswered(failed)

SpecClient == Init /\ [][NextClient]_vars

\* the client's own steps happen: a response that has arrived is handled
\* and a pending refresh is answered.  Nothing forces the network to fail.
SpecClientLive ==
  /\ SpecClient
  /\ WF_vars(\E status \in HttpStatuses : responseInterceptor(status))
  /\ WF_vars(refreshTokenAnswered(FALSE))

\* the board-cache specification: board data arrives from the server, delete
\* and priority mutations are started (at most MaxMutations) and each one
\* fails or succeeds, in any order
NextCache ==
  \/ \E data \in ServerBoards : boardFetched(data)
  \/ \E id \in 1..MaxTasks :
       queryCache.started < MaxMutations /\ onMutate("delete", id, "none")
  \/ \E id \in 1..MaxTasks, newPriority \in CacheLanes :
       queryCache.started < MaxMutations /\ onMutate("priority", id, newPriority)
  \/ \E seq \in 1..MaxMutations : onError(seq)
  \/ \E seq \in 1..MaxMutations : onSettled(seq)

SpecCache == Init /\ [][NextCache]_vars

(* ======================= properties ======================= *)
\* user u is the assignee or the creator of stored task t
Owns(u, t) == t.assignee.n = u \/ t.createdBy.n = u
TaskWithId(id) == {t \in Range(tasks) : t._id.n = id}
ValidBodies == {b \in TaskBodies : b.titleLen = 1 /\ (b.dueDate = << >> \/ b.dueDate[1] > now)}

\* C1: for the documents the handlers pass to it, checkOwnership is true
\* exactly for the task's assignee and creator, false for any other user,
\* and false for an absent task.
C1_OwnershipIff ==
  /\ \A u \in UserIds : checkOwnership(StoreId(u), << >>) = FALSE
  /\ mongoConnected =>
       \A u \in UserIds, t \in Range(tasks) : checkOwnership(StoreId(u), <<t>>) = Owns(u, t)

C1_Witness ==
  /\ mongoConnected
  /\ resp.op = "deleteTask" /\ resp.kind = "forbidden"
  /\ \E t \in Range(tasks) : t.assignee.n # t.createdBy.n

\* C2: a full update, status update, priority/position update or delete of an
\* existing task by a user who is neither its assignee nor its creator is
\* answered with an authorization failure and leaves the task store unchanged.
C2_NonOwnerDenied ==
  [][resp'.op \in {"updateTask", "updateTaskStatus", "updateTaskPriority", "deleteTask"} =>
     \A u \in UserIds, id \in TaskIds :
       (\E t \in TaskWithId(id) : ~Owns(u, t)) =>
         LET Denied == resp'.kind = "forbidden" /\ tasks' = tasks
         IN /\ \A b \in ValidBodies :
                 updateTask(u, id, b.titleLen, b.dueDate, << >>, << >>, b.assignee) => Denied
            /\ \A st \in SetStatuses : updateTaskStatus(u, id, st) => Denied
            /\ \A pr \in MovePriorities, pos \in ReqPositions :
                 updateTaskPriority(u, id, pr, pos) => Denied
            /\ deleteTask(u, id) => Denied]_vars

\* C3: getTask returns the task to its assignee and to its creator and answers
\* any other user with an authorization failure, on both store branches.
C3_GetTaskByOwnership ==
  [][resp'.op = "getTask" =>
     \A u \in UserIds, id \in TaskIds :
       getTask(u, id) =>
         \A t \in TaskWithId(id) :
           IF Owns(u, t) THEN resp'.kind = "ok" /\ resp'.task = t
           ELSE resp'.kind = "forbidden"]_vars

\* C4: a task created without an explicit assignee is stored with the acting
\* user as assignee, and every created task is stored with the acting user as
\* creator.
C4_CreateStampsOwner ==
  [][(resp'.op = "createTask" /\ resp'.kind = "ok") =>
     \A u \in UserIds, b \in ValidBodies, pr \in ReqPriorities, st \in ReqStatuses :
       createTask(u, b.titleLen, b.dueDate, pr, st, b.assignee) =>
         LET stored == tasks'[Len(tasks')]
         IN /\ Len(tasks') = Len(tasks) + 1
            /\ stored.createdBy.n = u
            /\ (b.assignee = << >> => stored.assignee.n = u)]_vars

\* a task just created in the memory store whose assignee is a number: the
\* value was taken from req.user._id (an explicit assignee is a string)
C4_Witness ==
  /\ ~mongoConnected
  /\ resp.op = "createTask" /\ resp.kind = "ok"
  /\ resp.task.assignee.rep = "num"
  /\ resp.task \in Range(tasks)

\* C6: every stored task's assignee and creator are existing users; createTask
\* naming an assignee that does not exist, and a full update by an owner that
\* changes the assignee to a user that does not exist, are answered not-found
\* and leave the task store unchanged.
AllRefsExist ==
  \A t \in Range(tasks) : t.assignee.n \in ExistingUserIds /\ t.createdBy.n \in ExistingUserIds

C6_RefsExist ==
  [][/\ AllRefsExist'
     /\ resp'.op \in {"createTask", "updateTask"} =>
        \A u \in UserIds, b \in ValidBodies :
          (b.assignee # << >> /\ b.assignee[1] \notin ExistingUserIds) =>
            LET Rejected == resp'.kind = "not_found" /\ tasks' = tasks
            IN /\ createTask(u, b.titleLen, b.dueDate, << >>, << >>, b.assignee) => Rejected
               /\ \A id \in TaskIds :
                    (\E t \in TaskWithId(id) : Owns(u, t)) =>
                      (updateTask(u, id, b.titleLen, b.dueDate, << >>, << >>, b.assignee)
                         => Rejected)]_vars

\* C7: a create or full-update request whose due date is present and not
\* strictly later than the current time is answered with a validation failure
\* that lists dueDate, and changes no task.
C7_PastDueRejected ==
  [][\A u \in UserIds, b \in {x \in TaskBodies : x.dueDate # << >> /\ x.dueDate[1] <= now} :
       LET Rejected == /\ resp'.kind = "validation" /\ "dueDate" \in resp'.fields
                       /\ tasks' = tasks
       IN /\ resp'.op = "createTask" =>
               (createTask(u, b.titleLen, b.dueDate, << >>, << >>, b.assignee) => Rejected)
          /\ resp'.op = "updateTask" =>
               \A id \in TaskIds :
                 updateTask(u, id, b.titleLen, b.dueDate, << >>, << >>, b.assignee) => Rejected]_vars

C7_Witness ==
  /\ resp.op = "updateTask" /\ resp.kind = "validation" /\ resp.fields = {"dueDate"}
  /\ tasks # << >>

\* the non-archived tasks assigned to user u with priority p
Lane(u, p) == SelectSeq(tasks, LAMBDA t : t.assignee.n = u /\ t.priority = p /\ ~t.isArchived)
Explicit == {<< >>} \cup {<<x>> : x \in UserIds}

\* C5: a newly created task receives as position the number of non-archived
\* tasks already in its (assignee, priority) lane, after any sequence of
\* create, delete and priority/position update.
C5_PositionIsLaneCount ==
  [][(resp'.op = "createTask" /\ resp'.kind = "ok") =>
     \A u \in UserIds, pr \in ReqPriorities, st \in ReqStatuses, a \in Explicit :
       createTask(u, 1, << >>, pr, st, a) =>
         tasks'[Len(tasks')].position = Len(Lane(Opt(a, u), Opt(pr, "backlog")))]_vars

\* C8: the board result has exactly the four lanes high, medium, low and
\* backlog, and in each lane totalCount >= 0 and hasMore = (totalCount > limit).
C8_BoardShape ==
  [][resp'.op = "getBoard" =>
     \A u \in UserIds, limit \in ReqLimits, fp \in FilterPriorities, fs \in FilterStatuses :
       getTasks(u, << >>, limit, fp, fs, TRUE) =>
         /\ DOMAIN resp'.data = Priorities
         /\ \A p \in Priorities :
              /\ resp'.data[p].totalCount >= 0
              /\ resp'.data[p].hasMore = (resp'.data[p].totalCount > Opt(limit, DefaultLimit))]_vars

\* a board whose "backlog" lane holds more tasks than were returned, next to
\* an empty lane
C8_Witness ==
  /\ resp.op = "getBoard"
  /\ resp.data["backlog"].hasMore /\ resp.data["backlog"].totalCount = 2
  /\ resp.data["high"].totalCount = 0 /\ ~resp.data["high"].hasMore

\* got is the first L elements of some ordering of all by position ascending,
\* then creation time descending
FirstByPosition(got, all, L) ==
  /\ Len(got) = (IF Len(all) < L THEN Len(all) ELSE L)
  /\ Range(got) \subseteq Range(all)
  /\ Cardinality(Range(got)) = Len(got)
  /\ \A i, j \in 1..Len(got) : i < j => ~LaneBefore(got[j], got[i])
  /\ \A x \in Range(all) \ Range(got), y \in Range(got) : ~LaneBefore(x, y)

\* C9: each lane of the board result with limit L holds exactly the first L of
\* the assignee's non-archived tasks of that priority, ordered by position
\* ascending and, among equal positions, by creation time descending.
C9_LaneIsFirstL ==
  [][resp'.op = "getBoard" =>
     \A u \in UserIds, limit \in ReqLimits, fp \in FilterPriorities, fs \in FilterStatuses :
       getTasks(u, << >>, limit, fp, fs, TRUE) =>
         \A p \in Priorities :
           FirstByPosition(resp'.data[p].tasks, Lane(u, p), Opt(limit, DefaultLimit))]_vars

\* C10: each lane's totalCount is the number of all non-archived tasks assigned
\* to the requesting user with that priority, whatever the limit, the filter
\* parameters of the request and the tasks of other users.
C10_TotalCountIsLaneSize ==
  [][resp'.op = "getBoard" =>
     \A u \in UserIds, limit \in ReqLimits, fp \in FilterPriorities, fs \in FilterStatuses :
       getTasks(u, << >>, limit, fp, fs, TRUE) =>
         \A p \in Priorities : resp'.data[p].totalCount = Len(Lane(u, p))]_vars

\* the non-archived tasks assigned to user u that pass the supplied filters
Matching(u, fp, fs) ==
  SelectSeq(tasks, LAMBDA t : /\ t.assignee.n = u /\ ~t.isArchived
                              /\ (fp = << >> \/ t.priority = fp[1])
                              /\ (fs = << >> \/ t.status = fs[1]))

\* C11: for a list request with page P >= 1 and limit L >= 1 over N matching
\* tasks, totalPages is the least k with k * L >= N, hasNext = (P < totalPages),
\* hasPrev = (P > 1), and a page beyond the last succeeds with no tasks and
\* hasNext false.
C11_Pagination ==
  [][resp'.op = "getTasks" =>
     \A u \in UserIds, q \in ListQueries :
       (/\ resp'.pagination.page = Opt(q.page, DefaultPage)
        /\ resp'.pagination.limit = Opt(q.limit, DefaultLimit)
        /\ getTasks(u, q.page, q.limit, q.priority, q.status, FALSE)) =>
         LET P == Opt(q.page, DefaultPage)
             L == Opt(q.limit, DefaultLimit)
             N == Len(Matching(u, q.priority, q.status))
             pg == resp'.pagination
         IN /\ pg.totalPages * L >= N /\ (pg.totalPages - 1) * L < N
            /\ pg.hasNext = (P < pg.totalPages)
            /\ pg.hasPrev = (P > 1)
            /\ P > pg.totalPages =>
                 resp'.kind = "ok" /\ resp'.tasks = << >> /\ ~pg.hasNext]_vars

\* page 3 of a two-task list with limit 1: past the last page
C11_Witness ==
  /\ resp.op = "getTasks" /\ resp.kind = "ok"
  /\ resp.pagination.page = 3 /\ resp.pagination.totalPages = 2
  /\ resp.tasks = << >> /\ resp.pagination.hasPrev /\ ~resp.pagination.hasNext

\* high before medium before low before backlog
SeverityRank(p) ==
  CASE p = "high" -> 0 [] p = "medium" -> 1 [] p = "low" -> 2 [] p = "backlog" -> 3

\* a comes strictly before b by severity, then position ascending, then
\* creation time descending
SeverityBefore(a, b) ==
  \/ SeverityRank(a.priority) < SeverityRank(b.priority)
  \/ a.priority = b.priority /\ LaneBefore(a, b)

\* C12: the list result is ordered by priority in severity order, then by
\* position ascending, then by creation time descending.
C12_ListSeverityOrder ==
  [][resp'.op = "getTasks" =>
     \A i, j \in 1..Len(resp'.tasks) :
       i < j => ~SeverityBefore(resp'.tasks[j], resp'.tasks[i])]_vars

C14_StatusFrame ==
  [][(resp'.op = "updateTaskStatus" /\ resp'.kind = "ok") =>
     \A u \in UserIds, id \in TaskIds, st \in SetStatuses :
       updateTaskStatus(u, id, st) =>
         /\ Len(tasks') = Len(tasks)
         /\ \A i \in 1..Len(tasks) :
              tasks'[i] = (IF tasks[i]._id.n = id THEN [tasks[i] EXCEPT !.status = st]
                           ELSE tasks[i])]_vars

\* a status update has completed one of two stored tasks
C14_Witness ==
  /\ resp.op = "updateTaskStatus" /\ resp.kind = "ok"
  /\ Len(tasks) = 2
  /\ \E t \in Range(tasks) : t.status = "completed"
  /\ \E t \in Range(tasks) : t.status = "pending"

\* C15: a successful priority/position update sets the task's priority,
\* overwrites its position exactly when a position was supplied, and leaves
\* every other field and every other task unchanged.
C15_PriorityFrame ==
  [][(resp'.op = "updateTaskPriority" /\ resp'.kind = "ok") =>
     \A u \in UserIds, id \in TaskIds, pr \in MovePriorities, pos \in ReqPositions :
       updateTaskPriority(u, id, pr, pos) =>
         /\ Len(tasks') = Len(tasks)
         /\ \A i \in 1..Len(tasks) :
              tasks'[i] =
                (IF tasks[i]._id.n # id THEN tasks[i]
                 ELSE IF pos = << >> THEN [tasks[i] EXCEPT !.priority = pr]
                 ELSE [tasks[i] EXCEPT !.priority = pr, !.position = pos[1]])]_vars

\* after a priority/position update two tasks of one lane hold the same
\* position
C15_Witness ==
  /\ resp.op = "updateTaskPriority" /\ resp.kind = "ok"
  /\ \E i, j \in 1..Len(tasks) :
       /\ i # j
       /\ tasks[i].assignee.n = tasks[j].assignee.n
       /\ tasks[i].priority = tasks[j].priority
       /\ tasks[i].position = tasks[j].position

\* identifiers that were given to a task which is no longer stored
DeletedIds == {id \in TaskIds : id < taskIdCounter /\ TaskWithId(id) = {}}

\* C16: a successful delete removes exactly the addressed task; a removed
\* task stays absent; every later read, (valid) update or delete of its
\* identifier is answered not-found; no list or board result holds a task
\* that is not stored.
C16_DeletePermanent ==
  [][/\ \A id \in DeletedIds : id < taskIdCounter' /\ ~\E t \in Range(tasks') : t._id.n = id
     /\ (resp'.op = "deleteTask" /\ resp'.kind = "ok") =>
          \A u \in UserIds, id \in TaskIds :
            deleteTask(u, id) =>
              /\ ~\E t \in Range(tasks') : t._id.n = id
              /\ tasks' = SelectSeq(tasks, LAMBDA t : t._id.n # id)
              /\ Len(tasks') = Len(tasks) - 1
     /\ resp'.op \in {"getTask", "updateTask", "updateTaskStatus", "updateTaskPriority",
                       "deleteTask"} =>
          \A u \in UserIds, id \in DeletedIds :
            LET Gone == resp'.kind = "not_found" /\ tasks' = tasks
            IN /\ getTask(u, id) => Gone
               /\ \A b \in ValidBodies :
                    updateTask(u, id, b.titleLen, b.dueDate, << >>, << >>, b.assignee) => Gone
               /\ \A st \in SetStatuses : updateTaskStatus(u, id, st) => Gone
               /\ \A pr \in MovePriorities, pos \in ReqPositions :
                    updateTaskPriority(u, id, pr, pos) => Gone
               /\ deleteTask(u, id) => Gone
     /\ resp'.op = "getTasks" => Range(resp'.tasks) \subseteq Range(tasks')
     /\ resp'.op = "getBoard" =>
          \A p \in DOMAIN resp'.data : Range(resp'.data[p].tasks) \subseteq Range(tasks')
    ]_vars

\* a request for a deleted task is answered not-found while another task is
\* still stored
C16_Witness ==
  /\ resp.op \in {"getTask", "updateTaskStatus"} /\ resp.kind = "not_found"
  /\ DeletedIds # {}
  /\ tasks # << >>

\* C17: no operation changes the creator of a stored task.
C17_CreatorImmutable ==
  [][\A t \in Range(tasks), t2 \in Range(tasks') :
       t2._id.n = t._id.n => t2.createdBy = t.createdBy]_vars

\* a full update has succeeded and a stored task is assigned to someone
\* other than its creator
C17_Witness ==
  /\ resp.op = "updateTask" /\ resp.kind = "ok"
  /\ \E t \in Range(tasks) : t.createdBy.n # t.assignee.n

\* C18: a read, full update, status update, priority/position update or
\* delete addressed to an identifier for which no task is stored is answered
\* not-found for any acting user and changes neither store.
C18_AbsentNotFound ==
  [][resp'.op \in {"getTask", "updateTask", "updateTaskStatus", "updateTaskPriority",
                   "deleteTask"} =>
     \A u \in UserIds, id \in TaskIds :
       TaskWithId(id) = {} =>
         LET Missing == resp'.kind = "not_found" /\ tasks' = tasks /\ users' = users
         IN /\ getTask(u, id) => Missing
            /\ \A b \in ValidBodies :
                 updateTask(u, id, b.titleLen, b.dueDate, << >>, << >>, b.assignee) => Missing
            /\ \A st \in SetStatuses : updateTaskStatus(u, id, st) => Missing
            /\ \A pr \in MovePriorities, pos \in ReqPositions :
                 updateTaskPriority(u, id, pr, pos) => Missing
            /\ deleteTask(u, id) => Missing]_vars

\* C19: a register request with an email that a stored user already has is
\* answered with the 'already exists' failure and leaves the user records as
\* they were.
C19_DuplicateEmailRejected ==
  [][resp'.op = "register" =>
     \A email \in Emails :
       ((\E i \in 1..Len(users) : users[i].email = email) /\ register(email)) =>
         /\ resp'.kind = "exists"
         /\ users' = users /\ userIdCounter' = userIdCounter]_vars

C19_Witness ==
  /\ resp.op = "register" /\ resp.kind = "exists"
  /\ Len(users) = 1

\* C20: no two stored user records have the same email, also when register
\* requests for one email interleave.
C20_EmailsUnique ==
  \A i, j \in 1..Len(users) : i # j => users[i].email # users[j].email

(* ---------------- C21: the two branches compared ---------------- *)
\* what a client sees of a task, apart from how the store represents ids
UserView(t) == [id |-> t._id.n, titleLen |-> t.titleLen, priority |-> t.priority,
                status |-> t.status, position |-> t.position,
                assignee |-> t.assignee.n, createdBy |-> t.createdBy.n]
ViewSeq(s) == [i \in 1..Len(s) |-> UserView(s[i])]
BoardView(b) == [p \in DOMAIN b |-> [tasks |-> ViewSeq(b[p].tasks),
                                      totalCount |-> b[p].totalCount,
                                      hasMore |-> b[p].hasMore]]

\* C21: on the same contents, the database branch and the memory branch give
\* the next created task the same position, and answer every list and board
\* request with the same tasks in the same order, the same counts and the
\* same pagination block.  (Evaluated on contents built by the memory branch,
\* whose ids both branches can compare.)
C21_BranchesAgree ==
  ~mongoConnected =>
    \A u \in UserIds :
      Authenticated(u) =>
        LET userId == StoreId(u)
        IN /\ \A p \in Priorities : DbNextPosition(userId, p) = MemNextPosition(userId, p)
           /\ \A q \in ListQueries :
                LET page == Opt(q.page, DefaultPage)
                    limit == Opt(q.limit, DefaultLimit)
                    db == DbList(userId, page, limit, q.priority, q.status)
                    mem == MemList(userId, page, limit, q.priority, q.status)
                IN /\ ViewSeq(db.tasks) = ViewSeq(mem.tasks)
                   /\ db.pagination = mem.pagination
           /\ \A l \in ReqLimits :
                BoardView(getBoardData(userId, Opt(l, DefaultLimit)))
                  = BoardView(MemBoardData(userId, Opt(l, DefaultLimit), << >>, << >>))

C25_NonPositiveLimit ==
  [][resp'.op = "getBoard" =>
     \A u \in UserIds, limit \in NonPositiveLimits :
       getTasks(u, << >>, limit, << >>, << >>, TRUE) =>
         \A p \in Priorities :
           /\ resp'.data[p].tasks = << >>
           /\ resp'.data[p].hasMore = (resp'.data[p].totalCount > 0)]_vars

(* ---------------- C26: ownership at the time of the write ---------------- *)
\* C26: whenever the write of a full update, status update, priority update
\* or delete changes the collection, the acting user is the assignee or the
\* creator of the task as it is stored when the write is applied.
C26_OwnerAtWrite ==
  [][\A r \in inflight :
       (r.op \in WriteOps /\ writeApply(r.rid) /\ tasks' # tasks)
         => \E t \in TaskWithId(r.id) : Owns(r.u, t)]_vars

(* ---------------- C27: lane positions under concurrent creates ---------------- *)
\* C27: when tasks are only created, the non-archived tasks of every
\* (assignee, priority) lane have pairwise distinct positions that form
\* 0..n-1, n being the number of tasks in the lane.
C27_LanePositionsDense ==
  \A u \in UserIds, p \in Priorities :
    LET lane == Lane(u, p)
    IN /\ {lane[i].position : i \in 1..Len(lane)} = 0..(Len(lane) - 1)
       /\ \A i, j \in 1..Len(lane) : i # j => lane[i].position # lane[j].position

(* ---------------- C28: a refresh token is good for one refresh ---------------- *)
\* C28: a refresh request is answered with new tokens only if the token it
\* presents has not been presented before to a successful refresh, to a
\* logout or to a logout-all.
C28_RefreshTokenOnce ==
  [][(resp' # resp /\ resp'.op = "refresh" /\ resp'.kind = "ok")
       => resp'.presented \notin spentTokens]_vars

(* ---------------- C24: one retry after a successful refresh ---------------- *)
\* C24: when a request was answered 401 and the refresh call succeeds, the
\* client stores the new access token and sends the request again, once,
\* with that token; a request is never sent more than twice, and when the
\* retried request is answered 401 it is rejected without another refresh.
C24_RetryOnce ==
  [][/\ (apiClient.phase = "refreshing" /\ apiClient'.phase = "resent") =>
          /\ apiClient'.accessToken # << >>
          /\ apiClient'.accessToken # apiClient.accessToken
          /\ apiClient'.authorization = apiClient'.accessToken
          /\ apiClient'.sends = apiClient.sends + 1
     /\ apiClient'.sends <= 2
     /\ (apiClient.phase = "resent" /\ responseInterceptor(401)) =>
          /\ apiClient'.phase = "rejected"
          /\ apiClient'.refreshCalls = apiClient.refreshCalls
          /\ apiClient'.accessToken = apiClient.accessToken]_vars

\* a request was sent twice, the second time with a refreshed token, and was
\* rejected after its second 401
C24_Witness ==
  /\ apiClient.phase = "rejected" /\ apiClient.sends = 2 /\ apiClient.retry
  /\ apiClient.refreshCalls = 1
  /\ apiClient.authorization = apiClient.accessToken /\ apiClient.accessToken # << >>

(* ---------------- C29: the client gives up when the refresh is refused ---------------- *)
\* C29: when a refresh request is pending and the server refuses it with 401
\* (the refresh cookie does not pass), the client eventually clears its
\* stored access token and rejects the request it was refreshing for.
C29_RefusedRefreshEnds ==
  (apiClient.phase = "refreshing" /\ ~apiClient.cookieValid)
    ~> (apiClient.phase = "rejected" /\ apiClient.accessToken = << >>)

(* ---------------- C23: rollback of a failed optimistic mutation ---------------- *)
\* C23: the context of an optimistic delete or priority move holds the board
\* data cached immediately before its optimistic change, and when the
\* mutation fails the board cache is set to exactly that data.
C23_RollbackRestores ==
  [][/\ (queryCache'.started # queryCache.started /\ queryCache.board # << >>) =>
          \A id \in 1..MaxTasks, pr \in CacheLanes :
            (onMutate("delete", id, "none") \/ onMutate("priority", id, pr)) =>
              \E m \in queryCache'.mutations :
                /\ m.seq = queryCache'.started
                /\ m.previousBoardData = queryCache.board
     /\ \A m \in queryCache.mutations :
          (m.status = "pending" /\ m.previousBoardData # << >> /\ onError(m.seq)) =>
            queryCache'.board = m.previousBoardData]_vars

\* a delete that had removed its task from the cached board has failed, and
\* the cache holds the board with the task again
C23_Witness ==
  \E m \in queryCache.mutations :
    /\ m.status = "error" /\ m.hook = "delete" /\ m.previousBoardData # << >>
    /\ \E p \in Priorities : InColumn(m.previousBoardData[1][p], m.id)
    /\ queryCache.board = m.previousBoardData

(* ---------------- C30: a rollback and the other mutations ---------------- *)
\* C30: when a delete of a task on the board fails, its rollback does not
\* put back a task that a later-started delete or priority move, still
\* pending or succeeded, had taken out of a lane: that task is not in that
\* lane after the rollback.
C30_RollbackOnlyOwnChange ==
  [][\A x \in queryCache.mutations :
       (/\ x.status = "pending" /\ x.hook = "delete"
        /\ x.previousBoardData # << >>
        /\ \E p \in Priorities : InColumn(x.previousBoardData[1][p], x.id)
        /\ onError(x.seq)) =>
         \A y \in queryCache.mutations :
           (/\ y.seq > x.seq /\ y.id # x.id
            /\ y.status \in {"pending", "success"}
            /\ y.previousBoardData # << >>)
             => \A p \in Priorities :
                  (/\ InColumn(y.previousBoardData[1][p], y.id)
                   /\ ~InColumn(queryCache.board[1][p], y.id))
                    => ~InColumn(queryCache'.board[1][p], y.id)]_vars

====
